---- MODULE Spec2Model ----
(***************************************************************************)
(* Model of libs/network/esp32/jswrap_esp32_network.c: the ESP32 binding   *)
(* of the Espruino "Wifi" library.  The state is the three global callback *)
(* handles of the file; one action per public operation and one for the    *)
(* event handler registered with the ESP-IDF event loop.  The results of   *)
(* the ESP-IDF calls and the payloads of the events are inputs.  The       *)
(* interpreter's allocations (jsvNewObject, jsvNewFromString,              *)
(* jswrap_require) are taken to succeed.                                   *)
(*                                                                         *)
(* Spec follows the callbacks through connect, disconnect, scan and the    *)
(* events; SpecOps calls the queries and the unimplemented operations      *)
(* while callbacks are stored; SpecConnect calls connect with every kind   *)
(* of network name and with the station's current connection as an input;  *)
(* SpecDecode runs scans, station events and getAPDetails over every SSID  *)
(* field and authentication mode; SpecFrame puts the queries between the   *)
(* operations and events of Spec; SpecStep runs event_handler statement by *)
(* statement, with up to two dispatches of one event under way at once.    *)
(***************************************************************************)
EXTENDS Integers, Sequences, FiniteSets, TLC

\* ------------------------------------------------------------------ bounds

\* Number of distinct callback functions the script passes in one run.
MaxFns == 2

\* Largest number of access point records a scan reports.
MaxAps == 2

\* ------------------------------------------------------- program constants

\* Width of the SSID field of wifi_ap_record_t / the event payloads.
SSID_LEN == 32

\* Width of the password field of wifi_sta_config_t / wifi_ap_config_t.
PASSWORD_LEN == 64

\* ------------------------------------------------------------------ JsVar

\* A JsVar pointer.  NULL is the null pointer, which is also how the
\* interpreter hands over `undefined`; the JavaScript value null is a
\* variable of its own (jsvIsNull is tested next to != NULL in the file).
NULL == [t |-> "NULL", id |-> 0, s |-> ""]

JsNull == [t |-> "null", id |-> 0, s |-> ""]

JsNumber == [t |-> "number", id |-> 0, s |-> ""]

JsObject == [t |-> "object", id |-> 0, s |-> ""]

JsString(str) == [t |-> "string", id |-> 0, s |-> str]

JsFunction(i) == [t |-> "function", id |-> i, s |-> ""]

FnIds == 1..MaxFns

jsvIsUndefined(v) == v = NULL

jsvIsFunction(v) == v.t = "function"

jsvIsString(v) == v.t = "string"

jsvIsObject(v) == v.t = "object"

jsvIsNull(v) == v.t = "null"

\* ------------------------------------------------------------------ state

VARIABLES
  g_jsDisconnectCallback, \* callback to invoke on a disconnect response
  g_jsGotIpCallback,      \* callback to invoke when we have an IP address
  g_jsScanCallback,       \* callback to invoke when a scan completes
  locks,                  \* per function: locks the three handles hold on it
  invoked,                \* per function: times queued with jsiQueueEvents
  superseded,             \* functions whose handle was released without a call
  registered,             \* per function: the operation that stored it, or ""
  nextFn,                 \* the next fresh function the script will pass
  aborted,                \* ESP_ERROR_CHECK has aborted the firmware
  last,                   \* what the most recent operation or dispatch did
  pc                      \* per dispatch of event_handler: the statement it is at

vars == <<g_jsDisconnectCallback, g_jsGotIpCallback, g_jsScanCallback,
          locks, invoked, superseded, registered, nextFn, aborted, last, pc>>

ESP_OK == "ESP_OK"

ESP_FAIL == "ESP_FAIL"

esp_err_t == {ESP_OK, ESP_FAIL}

\* The dispatches of event_handler that may be under way at once, where a
\* claim supposes more than one.
Dispatchers == {1, 2}

\* A dispatcher that is not inside event_handler.
NoDispatch ==
  [at |-> "idle", event |-> [event_id |-> "", event_info |-> [none |-> 0]]]

\* The three handles as one record.
Slots == [d |-> g_jsDisconnectCallback, g |-> g_jsGotIpCallback, s |-> g_jsScanCallback]

\* The outcome of a handler that has done nothing yet.
Unchanged ==
  [d |-> g_jsDisconnectCallback, g |-> g_jsGotIpCallback, s |-> g_jsScanCallback,
   queued |-> <<>>, published |-> <<>>, locked |-> <<>>, unlocked |-> <<>>,
   temps |-> <<>>,
   calls |-> <<>>, exc |-> "", ret |-> "", fatal |-> FALSE]

\* jsvLockAgainSafe(v): v with one more lock, NULL stays NULL.
jsvLockAgainSafe(v) == IF v = NULL THEN <<>> ELSE <<v>>

\* jsvUnLock(v): one lock less; jsvUnLock(NULL) does nothing.
jsvUnLock(v) == IF v = NULL THEN <<>> ELSE <<v>>

VendorCall(name, err) == [name |-> name, err |-> err]

EXPECT_CB_EXCEPTION == "Expecting callback function but got %v"

EXPECT_OPT_EXCEPTION == "Expecting options object but got %t"

EXPECT_PASSWORD_EXCEPTION == "Expecting options.password to be a string but got %t"

NO_SSID_EXCEPTION == "No SSID provided"

SCAN_IN_PROGRESS_EXCEPTION == "A scan is already in progress."

\* --------------------------------------------------------- byte buffers

RECURSIVE CString(_)
\* The C string a buffer holds: its bytes up to the first NUL.
CString(buf) ==
  IF buf = <<>> \/ Head(buf) = 0 THEN <<>> ELSE <<Head(buf)>> \o CString(Tail(buf))

\* strncpy(dst, src, n): the string of src, cut at n bytes, NUL padded to n.
strncpy(src, n) ==
  LET str == CString(SubSeq(src, 1, n))
  IN  str \o [i \in 1..(n - Len(str)) |-> 0]

\* memcpy(dst, src, n): the first n bytes as they are.
memcpy(src, n) == SubSeq(src, 1, n)

\* The decoding of a scan record's SSID that copies one byte too few.
ScanSsid_short(buf) == CString(strncpy(buf, SSID_LEN - 1) \o <<0>>)

\* char ssid[32 + 1]; strncpy(ssid, list[i].ssid, 32); ssid[32] = '\0';
\* jsvNewFromString(ssid)
ScanSsid(buf) == CString(strncpy(buf, SSID_LEN) \o <<0>>)

\* char temp[33]; memcpy(temp, ...ssid, 32); temp[32] = '\0';
\* jsvNewFromString(temp)
EventSsid(buf) == CString(memcpy(buf, SSID_LEN) \o <<0>>)

HexDigit(n) ==
  <<"0", "1", "2", "3", "4", "5", "6", "7", "8", "9", "a", "b", "c", "d", "e", "f">>[n + 1]

Hex02(b) == HexDigit(b \div 16) \o HexDigit(b % 16)

\* sprintf(temp, MACSTR, MAC2STR(m)) for a byte array m.
MACSTR(m) ==
  Hex02(m[1]) \o ":" \o Hex02(m[2]) \o ":" \o Hex02(m[3]) \o ":" \o
  Hex02(m[4]) \o ":" \o Hex02(m[5]) \o ":" \o Hex02(m[6])

\* sprintf(temp, IPSTR, IP2STR(&a))
IPSTR(a) ==
  ToString(a[1]) \o "." \o ToString(a[2]) \o "." \o ToString(a[3]) \o "." \o ToString(a[4])

\* ------------------------------------------------------------ auth modes

WIFI_AUTH_OPEN == 0

WIFI_AUTH_WEP == 1

WIFI_AUTH_WPA_PSK == 2

WIFI_AUTH_WPA2_PSK == 3

WIFI_AUTH_WPA_WPA2_PSK == 4

authModeToString(authMode) ==
  CASE authMode = WIFI_AUTH_OPEN -> "OPEN"
    [] authMode = WIFI_AUTH_WEP -> "WEP"
    [] authMode = WIFI_AUTH_WPA_PSK -> "WPA"
    [] authMode = WIFI_AUTH_WPA2_PSK -> "WPA2"
    [] authMode = WIFI_AUTH_WPA_WPA2_PSK -> "WPA/WPA2"
    [] OTHER -> "Unknown"

\* ------------------------------------------------------------------ scan

\* A push that puts the new element first.
jsvArrayPush_front(arr, v) == <<v>> \o arr

\* jsvArrayPush(arr, v)
jsvArrayPush(arr, v) == Append(arr, v)

\* An access point record that also carries the channel.
AccessPoint_channel(rec) ==
  [rssi |-> rec.rssi,
   authMode |-> authModeToString(rec.authmode),
   ssid |-> ScanSsid(rec.ssid),
   channel |-> 0]

\* The object scanCB builds for one wifi_ap_record_t.
AccessPoint(rec) ==
  [rssi |-> rec.rssi,
   authMode |-> authModeToString(rec.authmode),
   ssid |-> ScanSsid(rec.ssid)]

RECURSIVE ScanLoop(_, _, _, _)
\* for (i=0; i<apCount; i++) { ...; jsvArrayPush(jsAccessPointArray, ...); }
ScanLoop(list, apCount, i, arr) ==
  IF i >= apCount THEN arr
  ELSE ScanLoop(list, apCount, i + 1, jsvArrayPush(arr, AccessPoint(list[i + 1])))

\* scanCB without its test of g_jsScanCallback.
scanCB_unguarded(numErr, recErr, list) ==
  LET apCount == Len(list)
      c1 == <<VendorCall("esp_wifi_scan_get_ap_num", numErr)>>
      c2 == c1 \o <<VendorCall("esp_wifi_scan_get_ap_records", recErr)>>
  IN  [Unchanged EXCEPT
         !.calls = IF apCount > 0 THEN c2 ELSE c1,
         !.queued = <<[fn |-> g_jsScanCallback,
                       args |-> <<ScanLoop(list, apCount, 0, <<>>)>>]>>,
         !.unlocked = jsvUnLock(g_jsScanCallback),
         !.s = NULL]

\* scanCB that logs a failed fetch and hands the callback an empty array.
scanCB_suppress(numErr, recErr, list) ==
  IF g_jsScanCallback = NULL THEN Unchanged
  ELSE
    LET apCount == Len(list)
        c1 == <<VendorCall("esp_wifi_scan_get_ap_num", numErr)>>
        c2 == c1 \o <<VendorCall("esp_wifi_scan_get_ap_records", recErr)>>
        failed == numErr # ESP_OK \/ (apCount > 0 /\ recErr # ESP_OK)
        jsAccessPointArray == IF failed THEN <<>> ELSE ScanLoop(list, apCount, 0, <<>>)
    IN  [Unchanged EXCEPT
           !.calls = IF numErr = ESP_OK /\ apCount > 0 THEN c2 ELSE c1,
           !.queued = <<[fn |-> g_jsScanCallback, args |-> <<jsAccessPointArray>>]>>,
           !.unlocked = jsvUnLock(g_jsScanCallback),
           !.s = NULL]

\* scanCB(): numErr and recErr are what esp_wifi_scan_get_ap_num and
\* esp_wifi_scan_get_ap_records return, list the records the driver holds.
\* ESP_ERROR_CHECK aborts the firmware on any result but ESP_OK.
scanCB(numErr, recErr, list) ==
  IF g_jsScanCallback = NULL THEN Unchanged
  ELSE
    LET apCount == Len(list)
        c1 == <<VendorCall("esp_wifi_scan_get_ap_num", numErr)>>
        c2 == c1 \o <<VendorCall("esp_wifi_scan_get_ap_records", recErr)>>
        jsAccessPointArray == ScanLoop(list, apCount, 0, <<>>)
    IN  IF numErr # ESP_OK THEN [Unchanged EXCEPT !.calls = c1, !.fatal = TRUE]
        ELSE IF apCount > 0 /\ recErr # ESP_OK
          THEN [Unchanged EXCEPT !.calls = c2, !.fatal = TRUE]
        ELSE [Unchanged EXCEPT
                !.calls = IF apCount > 0 THEN c2 ELSE c1,
                !.queued = <<[fn |-> g_jsScanCallback, args |-> <<jsAccessPointArray>>]>>,
                !.unlocked = jsvUnLock(g_jsScanCallback),
                !.s = NULL]

\* ---------------------------------------------------------------- events

EventIds ==
  {"SYSTEM_EVENT_WIFI_READY", "SYSTEM_EVENT_SCAN_DONE", "SYSTEM_EVENT_STA_START",
   "SYSTEM_EVENT_STA_STOP", "SYSTEM_EVENT_STA_CONNECTED",
   "SYSTEM_EVENT_STA_DISCONNECTED", "SYSTEM_EVENT_STA_AUTHMODE_CHANGE",
   "SYSTEM_EVENT_STA_GOT_IP", "SYSTEM_EVENT_AP_START", "SYSTEM_EVENT_AP_STOP",
   "SYSTEM_EVENT_AP_STACONNECTED", "SYSTEM_EVENT_AP_STADISCONNECTED",
   "SYSTEM_EVENT_AP_PROBEREQRECVED", "SYSTEM_EVENT_MAX"}

\* The name to publish an event on; "" stands for the NULL return.
wifiGetEvent(event) ==
  CASE event = "SYSTEM_EVENT_AP_PROBEREQRECVED" -> "#onprobe_recv"
    [] event = "SYSTEM_EVENT_AP_STACONNECTED" -> "#onsta_joined"
    [] event = "SYSTEM_EVENT_AP_STADISCONNECTED" -> "#onsta_left"
    [] event = "SYSTEM_EVENT_STA_AUTHMODE_CHANGE" -> "#onauth_change"
    [] event = "SYSTEM_EVENT_STA_CONNECTED" -> "#onassociated"
    [] event = "SYSTEM_EVENT_STA_DISCONNECTED" -> "#ondisconnected"
    [] event = "SYSTEM_EVENT_STA_GOT_IP" -> "#onconnected"
    [] OTHER -> ""

\* sendWifiEvent(eventType, jsDetails): what it hands to
\* jsiQueueObjectCallbacks(module, eventName, params, 1).
sendWifiEvent(eventType, jsDetails) ==
  LET eventName == wifiGetEvent(eventType)
  IN  IF eventName = "" THEN <<>>
      ELSE <<[name |-> eventName, args |-> <<jsDetails>>]>>

\* sendWifiEvent: the locks it still holds when it returns.  getWifiModule
\* hands it the module locked; the return for an event without a name comes
\* before jsvUnLock(module).
sendWifiEventTemps(eventType) ==
  IF wifiGetEvent(eventType) = "" THEN <<"module">> ELSE <<>>

\* The locks a branch of event_handler still holds when it returns: the one
\* jsvNewObject() gave it on jsDetails, which no statement gives back, and
\* those sendWifiEvent has left.
BranchTemps(eventType) == <<"jsDetails">> \o sendWifiEventTemps(eventType)

\* sendWifiCompletionCB that leaves the handle in place.
sendWifiCompletionCB_keep(cb, reason) ==
  IF ~jsvIsFunction(cb) THEN [cb |-> cb, queued |-> <<>>, unlocked |-> <<>>]
  ELSE [cb |-> cb,
        queued |-> <<[fn |-> cb,
                      args |-> <<IF reason = "" THEN JsNull ELSE JsString(reason)>>]>>,
        unlocked |-> <<>>]

\* sendWifiCompletionCB with the test of reason inverted.
sendWifiCompletionCB_reason(cb, reason) ==
  IF ~jsvIsFunction(cb) THEN [cb |-> cb, queued |-> <<>>, unlocked |-> <<>>]
  ELSE [cb |-> NULL,
        queued |-> <<[fn |-> cb,
                      args |-> <<IF reason = "" THEN JsString(reason) ELSE JsNull>>]>>,
        unlocked |-> jsvUnLock(cb)]

\* sendWifiCompletionCB(&g_jsCallback, reason) on the handle cb; reason ""
\* stands for NULL.  Yields the handle afterwards and what was queued.
sendWifiCompletionCB(cb, reason) ==
  IF ~jsvIsFunction(cb) THEN [cb |-> cb, queued |-> <<>>, unlocked |-> <<>>]
  ELSE [cb |-> NULL,
        queued |-> <<[fn |-> cb,
                      args |-> <<IF reason = "" THEN JsNull ELSE JsString(reason)>>]>>,
        unlocked |-> jsvUnLock(cb)]

\* The disconnect callback queued with a null argument, as the connect one.
DisconnectCompletion_arg(cb) ==
  IF jsvIsFunction(cb)
    THEN [cb |-> NULL, queued |-> <<[fn |-> cb, args |-> <<JsNull>>]>>,
          unlocked |-> jsvUnLock(cb)]
    ELSE [cb |-> cb, queued |-> <<>>, unlocked |-> <<>>]

\* The first lines of the SYSTEM_EVENT_STA_DISCONNECTED branch.
DisconnectCompletion(cb) ==
  IF jsvIsFunction(cb)
    THEN [cb |-> NULL, queued |-> <<[fn |-> cb, args |-> <<>>]>>, unlocked |-> jsvUnLock(cb)]
    ELSE [cb |-> cb, queued |-> <<>>, unlocked |-> <<>>]

\* event_handler(ctx, event); numErr, recErr and list are read by scanCB only.
event_handler(event, numErr, recErr, list) ==
  LET id == event.event_id
      info == event.event_info
  IN  CASE id = "SYSTEM_EVENT_STA_DISCONNECTED" ->
             LET c == DisconnectCompletion(g_jsDisconnectCallback)
                 jsDetails == [ssid |-> EventSsid(info.ssid),
                               mac |-> MACSTR(info.bssid),
                               reason |-> ToString(info.reason)]
             IN  [Unchanged EXCEPT !.d = c.cb, !.queued = c.queued,
                                   !.unlocked = c.unlocked,
                                   !.published = sendWifiEvent(id, jsDetails),
                                   !.temps = BranchTemps(id),
                                   !.ret = ESP_OK]
        [] id = "SYSTEM_EVENT_STA_CONNECTED" ->
             LET jsDetails == [ssid |-> EventSsid(info.ssid),
                               mac |-> MACSTR(info.bssid),
                               channel |-> ToString(info.channel)]
             IN  [Unchanged EXCEPT !.published = sendWifiEvent(id, jsDetails),
                                   !.temps = BranchTemps(id),
                                   !.ret = ESP_OK]
        [] id = "SYSTEM_EVENT_STA_GOT_IP" ->
             LET c == sendWifiCompletionCB(g_jsGotIpCallback, "")
                 jsDetails == [ip |-> IPSTR(info.ip),
                               netmask |-> IPSTR(info.netmask),
                               gw |-> IPSTR(info.gw)]
             IN  [Unchanged EXCEPT !.g = c.cb, !.queued = c.queued,
                                   !.unlocked = c.unlocked,
                                   !.published = sendWifiEvent(id, jsDetails),
                                   !.temps = BranchTemps(id),
                                   !.ret = ESP_OK]
        [] id \in {"SYSTEM_EVENT_AP_STACONNECTED", "SYSTEM_EVENT_AP_STADISCONNECTED"} ->
             LET jsDetails == [mac |-> info.macText]
             IN  [Unchanged EXCEPT !.published = sendWifiEvent(id, jsDetails),
                                   !.temps = BranchTemps(id),
                                   !.ret = ESP_OK]
        [] id = "SYSTEM_EVENT_SCAN_DONE" ->
             LET r == scanCB(numErr, recErr, list)
             IN  IF r.fatal THEN r ELSE [r EXCEPT !.ret = ESP_OK]
        [] OTHER -> [Unchanged EXCEPT !.ret = ESP_OK]

\* ------------------------------------------------------------ operations

\* disconnect that overwrites the stored handle without releasing it.
jswrap_ESP32_wifi_disconnect_leak(jsCallback, err) ==
  IF jsCallback # NULL /\ ~jsvIsUndefined(jsCallback) /\ ~jsvIsFunction(jsCallback)
    THEN [Unchanged EXCEPT !.d = NULL, !.exc = EXPECT_CB_EXCEPTION]
    ELSE [Unchanged EXCEPT
            !.d = jsCallback,
            !.locked = jsvLockAgainSafe(jsCallback),
            !.calls = <<VendorCall("esp_wifi_disconnect", err)>>]

\* disconnect without the check of its argument.
jswrap_ESP32_wifi_disconnect_unchecked(jsCallback, err) ==
  LET u == jsvUnLock(g_jsDisconnectCallback)
  IN  [Unchanged EXCEPT
         !.d = jsCallback,
         !.unlocked = u,
         !.locked = jsvLockAgainSafe(jsCallback),
         !.calls = <<VendorCall("esp_wifi_disconnect", err)>>]

\* disconnect that also gives up the pending connect callback.
jswrap_ESP32_wifi_disconnect_both(jsCallback, err) ==
  LET u == jsvUnLock(g_jsDisconnectCallback) \o jsvUnLock(g_jsGotIpCallback)
  IN  IF jsCallback # NULL /\ ~jsvIsUndefined(jsCallback) /\ ~jsvIsFunction(jsCallback)
        THEN [Unchanged EXCEPT !.d = NULL, !.g = NULL, !.unlocked = u,
                               !.exc = EXPECT_CB_EXCEPTION]
        ELSE [Unchanged EXCEPT
                !.d = jsCallback,
                !.g = NULL,
                !.unlocked = u,
                !.locked = jsvLockAgainSafe(jsCallback),
                !.calls = <<VendorCall("esp_wifi_disconnect", err)>>]

\* jswrap_ESP32_wifi_disconnect(jsCallback); err is what esp_wifi_disconnect
\* returns (the code does not look at it).
jswrap_ESP32_wifi_disconnect(jsCallback, err) ==
  LET u == jsvUnLock(g_jsDisconnectCallback)
  IN  IF jsCallback # NULL /\ ~jsvIsUndefined(jsCallback) /\ ~jsvIsFunction(jsCallback)
        THEN [Unchanged EXCEPT !.d = NULL, !.unlocked = u, !.exc = EXPECT_CB_EXCEPTION]
        ELSE [Unchanged EXCEPT
                !.d = jsCallback,
                !.unlocked = u,
                !.locked = jsvLockAgainSafe(jsCallback),
                !.calls = <<VendorCall("esp_wifi_disconnect", err)>>]

\* The calls of connect with the result of esp_wifi_set_config not looked at.
ConnectVendorCalls_noAbort(r, jsCallback, err) ==
  LET c1 == <<VendorCall("esp_wifi_set_mode", err[1])>>
      c3 == c1 \o <<VendorCall("esp_wifi_set_config", err[2]),
                    VendorCall("esp_wifi_start", err[3])>>
      c4 == c3 \o <<VendorCall("esp_wifi_connect", err[4])>>
  IN  IF err[1] # ESP_OK THEN [r EXCEPT !.calls = c1]
      ELSE IF err[3] # ESP_OK THEN [r EXCEPT !.calls = c3]
      ELSE [r EXCEPT !.g = jsCallback,
                     !.locked = jsvLockAgainSafe(jsCallback),
                     !.calls = c4]

\* The calls of connect storing the callback without jsvLockAgainSafe.
ConnectVendorCalls_noLock(r, jsCallback, err) ==
  LET c1 == <<VendorCall("esp_wifi_set_mode", err[1])>>
      c2 == c1 \o <<VendorCall("esp_wifi_set_config", err[2])>>
      c3 == c2 \o <<VendorCall("esp_wifi_start", err[3])>>
      c4 == c3 \o <<VendorCall("esp_wifi_connect", err[4])>>
  IN  IF err[1] # ESP_OK THEN [r EXCEPT !.calls = c1]
      ELSE IF err[2] # ESP_OK THEN [r EXCEPT !.calls = c2]
      ELSE IF err[3] # ESP_OK THEN [r EXCEPT !.calls = c3]
      ELSE [r EXCEPT !.g = jsCallback, !.calls = c4]

\* The ESP-IDF calls of jswrap_ESP32_wifi_connect once the arguments are
\* accepted; r is the outcome so far, err[i] the result of the i-th call.
ConnectVendorCalls(r, jsCallback, err) ==
  LET c1 == <<VendorCall("esp_wifi_set_mode", err[1])>>
      c2 == c1 \o <<VendorCall("esp_wifi_set_config", err[2])>>
      c3 == c2 \o <<VendorCall("esp_wifi_start", err[3])>>
      c4 == c3 \o <<VendorCall("esp_wifi_connect", err[4])>>
  IN  IF err[1] # ESP_OK THEN [r EXCEPT !.calls = c1]
      ELSE IF err[2] # ESP_OK THEN [r EXCEPT !.calls = c2]
      ELSE IF err[3] # ESP_OK THEN [r EXCEPT !.calls = c3]
      ELSE [r EXCEPT !.g = jsCallback,
                     !.locked = jsvLockAgainSafe(jsCallback),
                     !.calls = c4]

\* connect that leaves g_jsDisconnectCallback alone.
jswrap_ESP32_wifi_connect_keepDisconnect(jsSsid, jsOptions, jsPassword, jsCallback, err) ==
  IF ~jsvIsString(jsSsid) THEN [Unchanged EXCEPT !.exc = NO_SSID_EXCEPTION]
  ELSE IF jsOptions # NULL /\ ~jsvIsObject(jsOptions)
    THEN [Unchanged EXCEPT !.exc = EXPECT_OPT_EXCEPTION]
  ELSE
    LET u1 == jsvUnLock(g_jsGotIpCallback)
    IN  IF jsCallback # NULL /\ ~jsvIsUndefined(jsCallback) /\ ~jsvIsFunction(jsCallback)
          THEN [Unchanged EXCEPT !.g = NULL, !.unlocked = u1, !.exc = EXPECT_CB_EXCEPTION]
        ELSE IF jsOptions # NULL /\ jsPassword # NULL /\ ~jsvIsString(jsPassword)
          THEN [Unchanged EXCEPT !.g = NULL, !.unlocked = u1,
                                 !.exc = EXPECT_PASSWORD_EXCEPTION]
        ELSE ConnectVendorCalls([Unchanged EXCEPT !.g = NULL, !.unlocked = u1],
                                jsCallback, err)

\* jswrap_ESP32_wifi_connect(jsSsid, jsOptions, jsCallback); jsPassword is
\* what jsvObjectGetChild(jsOptions, "password", 0) yields.
jswrap_ESP32_wifi_connect(jsSsid, jsOptions, jsPassword, jsCallback, err) ==
  IF ~jsvIsString(jsSsid) THEN [Unchanged EXCEPT !.exc = NO_SSID_EXCEPTION]
  ELSE IF jsOptions # NULL /\ ~jsvIsObject(jsOptions)
    THEN [Unchanged EXCEPT !.exc = EXPECT_OPT_EXCEPTION]
  ELSE
    LET u1 == jsvUnLock(g_jsGotIpCallback)
        u2 == u1 \o jsvUnLock(g_jsDisconnectCallback)
    IN  IF jsCallback # NULL /\ ~jsvIsUndefined(jsCallback) /\ ~jsvIsFunction(jsCallback)
          THEN [Unchanged EXCEPT !.g = NULL, !.unlocked = u1, !.exc = EXPECT_CB_EXCEPTION]
        ELSE IF jsOptions # NULL /\ jsPassword # NULL /\ ~jsvIsString(jsPassword)
          THEN [Unchanged EXCEPT
                  !.g = NULL, !.d = NULL, !.unlocked = u2,
                  !.exc = EXPECT_PASSWORD_EXCEPTION]
        ELSE ConnectVendorCalls([Unchanged EXCEPT !.g = NULL, !.d = NULL, !.unlocked = u2],
                                jsCallback, err)

\* scan without its test for a scan in progress.
jswrap_ESP32_wifi_scan_reentrant(jsCallback, err) ==
  IF ~jsvIsFunction(jsCallback)
    THEN [Unchanged EXCEPT !.exc = EXPECT_CB_EXCEPTION]
  ELSE
    LET r == [Unchanged EXCEPT !.s = jsCallback, !.locked = jsvLockAgainSafe(jsCallback)]
        c1 == <<VendorCall("esp_wifi_set_mode", err[1])>>
        c2 == c1 \o <<VendorCall("esp_wifi_start", err[2])>>
        c3 == c2 \o <<VendorCall("esp_wifi_scan_start", err[3])>>
    IN  IF err[1] # ESP_OK THEN [r EXCEPT !.calls = c1]
        ELSE IF err[2] # ESP_OK THEN [r EXCEPT !.calls = c2]
        ELSE [r EXCEPT !.calls = c3]

\* scan that stores the callback once esp_wifi_start has succeeded.
jswrap_ESP32_wifi_scan_storeLast(jsCallback, err) ==
  IF g_jsScanCallback # NULL
    THEN [Unchanged EXCEPT !.exc = SCAN_IN_PROGRESS_EXCEPTION]
  ELSE IF ~jsvIsFunction(jsCallback)
    THEN [Unchanged EXCEPT !.exc = EXPECT_CB_EXCEPTION]
  ELSE
    LET r == [Unchanged EXCEPT !.s = jsCallback, !.locked = jsvLockAgainSafe(jsCallback)]
        c1 == <<VendorCall("esp_wifi_set_mode", err[1])>>
        c2 == c1 \o <<VendorCall("esp_wifi_start", err[2])>>
        c3 == c2 \o <<VendorCall("esp_wifi_scan_start", err[3])>>
    IN  IF err[1] # ESP_OK THEN [Unchanged EXCEPT !.calls = c1]
        ELSE IF err[2] # ESP_OK THEN [Unchanged EXCEPT !.calls = c2]
        ELSE [r EXCEPT !.calls = c3]

\* jswrap_ESP32_wifi_scan(jsCallback); err[3] is the result of
\* esp_wifi_scan_start, which the code does not look at.
jswrap_ESP32_wifi_scan(jsCallback, err) ==
  IF g_jsScanCallback # NULL
    THEN [Unchanged EXCEPT !.exc = SCAN_IN_PROGRESS_EXCEPTION]
  ELSE IF ~jsvIsFunction(jsCallback)
    THEN [Unchanged EXCEPT !.exc = EXPECT_CB_EXCEPTION]
  ELSE
    LET r == [Unchanged EXCEPT !.s = jsCallback, !.locked = jsvLockAgainSafe(jsCallback)]
        c1 == <<VendorCall("esp_wifi_set_mode", err[1])>>
        c2 == c1 \o <<VendorCall("esp_wifi_start", err[2])>>
        c3 == c2 \o <<VendorCall("esp_wifi_scan_start", err[3])>>
    IN  IF err[1] # ESP_OK THEN [r EXCEPT !.calls = c1]
        ELSE IF err[2] # ESP_OK THEN [r EXCEPT !.calls = c2]
        ELSE [r EXCEPT !.calls = c3]

\* --------------------------------------------------------------- queries

\* switch(mode) of getStatus; the return value of esp_wifi_get_mode is not
\* looked at.
modeStr(mode) ==
  CASE mode = "WIFI_MODE_NULL" -> "off"
    [] mode = "WIFI_MODE_AP" -> "ap"
    [] mode = "WIFI_MODE_STA" -> "sta"
    [] mode = "WIFI_MODE_APSTA" -> "sta+ap"
    [] OTHER -> "unknown"

\* switch(psType) of getStatus.
psTypeStr(psType) ==
  CASE psType = "WIFI_PS_LIGHT" -> "light"
    [] psType = "WIFI_PS_MAC" -> "mac"
    [] psType = "WIFI_PS_MODEM" -> "modem"
    [] psType = "WIFI_PS_NONE" -> "none"
    [] OTHER -> "unknown"

\* getStatus(callback): UNUSED(jsCallback).
jswrap_ESP32_wifi_getStatus(jsCallback, mode, psType) ==
  LET jsWiFiStatus == [mode |-> modeStr(mode), powersave |-> psTypeStr(psType)]
  IN  [Unchanged EXCEPT
         !.calls = <<VendorCall("esp_wifi_get_mode", ESP_OK),
                     VendorCall("esp_wifi_get_ps", ESP_OK)>>,
         !.ret = jsWiFiStatus]

\* strncpy(buf, (char *)config.ssid, 32); buf[32] = 0; jsvNewFromString(buf)
ConfigSsid(config) == CString(strncpy(config.ssid, SSID_LEN) \o <<0>>)

\* jsvNewFromString((char *)config.password): the string is read from the
\* field itself and not from buf, so that it runs on into the bytes that
\* follow the field (config.after) when the field holds no NUL.
ConfigPassword(config) == CString(config.password \o config.after)

\* The test of the callback argument that the queries share.
QueryCallbackRejected(jsCallback) ==
  jsCallback # NULL /\ ~jsvIsNull(jsCallback) /\ ~jsvIsFunction(jsCallback)

\* What a query does with the record it has built.
QueryResult(jsCallback, calls, jsDetails) ==
  [Unchanged EXCEPT
     !.calls = calls,
     !.queued = IF jsvIsFunction(jsCallback)
                  THEN <<[fn |-> jsCallback, args |-> <<jsDetails>>]>>
                  ELSE <<>>,
     !.ret = jsDetails]

\* getDetails(callback); config is what esp_wifi_get_config(WIFI_IF_STA)
\* fills in.
jswrap_ESP32_wifi_getDetails(jsCallback, config) ==
  IF QueryCallbackRejected(jsCallback)
    THEN [Unchanged EXCEPT !.exc = EXPECT_CB_EXCEPTION, !.ret = NULL]
  ELSE
    QueryResult(jsCallback, <<VendorCall("esp_wifi_get_config", ESP_OK)>>,
                [ssid |-> ConfigSsid(config), password |-> ConfigPassword(config)])

\* The switch of getAPDetails without its default case: authModeStr keeps
\* the "" it was initialised with.
authModeStr_nodefault(authmode) ==
  CASE authmode = WIFI_AUTH_OPEN -> "open"
    [] authmode = WIFI_AUTH_WEP -> "wep"
    [] authmode = WIFI_AUTH_WPA2_PSK -> "wpa2"
    [] authmode = WIFI_AUTH_WPA_PSK -> "wpa"
    [] authmode = WIFI_AUTH_WPA_WPA2_PSK -> "wpa_wpa2"
    [] OTHER -> ""

\* switch(config.authmode) of getAPDetails.
authModeStr(authmode) ==
  CASE authmode = WIFI_AUTH_OPEN -> "open"
    [] authmode = WIFI_AUTH_WEP -> "wep"
    [] authmode = WIFI_AUTH_WPA2_PSK -> "wpa2"
    [] authmode = WIFI_AUTH_WPA_PSK -> "wpa"
    [] authmode = WIFI_AUTH_WPA_WPA2_PSK -> "wpa_wpa2"
    [] OTHER -> "unknown"

\* getAPDetails(callback); config is what esp_wifi_get_config(WIFI_IF_AP)
\* fills in.
jswrap_ESP32_wifi_getAPDetails(jsCallback, config) ==
  IF QueryCallbackRejected(jsCallback)
    THEN [Unchanged EXCEPT !.exc = EXPECT_CB_EXCEPTION, !.ret = NULL]
  ELSE
    QueryResult(jsCallback, <<VendorCall("esp_wifi_get_config", ESP_OK)>>,
                [authMode |-> authModeStr(config.authmode),
                 hidden |-> config.ssid_hidden # 0,
                 maxConn |-> config.max_connection,
                 ssid |-> ConfigSsid(config),
                 password |-> ConfigPassword(config)])

\* networkGetAddressAsString(addr, 4, 10, '.')
networkGetAddressAsString(a) ==
  ToString(a[1]) \o "." \o ToString(a[2]) \o "." \o ToString(a[3]) \o "." \o ToString(a[4])

\* getIPInfo that does not look at what tcpip_adapter_get_ip_info returns.
getIPInfo_always(jsCallback, interface, err, ipInfo, macAddr) ==
  IF QueryCallbackRejected(jsCallback)
    THEN [Unchanged EXCEPT !.exc = EXPECT_CB_EXCEPTION, !.ret = NULL]
  ELSE
    QueryResult(jsCallback,
                <<VendorCall("tcpip_adapter_get_ip_info " \o interface, err),
                  VendorCall("esp_wifi_get_mac", ESP_OK)>>,
                [ip |-> networkGetAddressAsString(ipInfo.ip),
                 netmask |-> networkGetAddressAsString(ipInfo.netmask),
                 gw |-> networkGetAddressAsString(ipInfo.gw),
                 mac |-> MACSTR(macAddr)])

\* getIPInfo(jsCallback, interface); err and ipInfo are what
\* tcpip_adapter_get_ip_info answers, macAddr what esp_wifi_get_mac does.
getIPInfo(jsCallback, interface, err, ipInfo, macAddr) ==
  IF QueryCallbackRejected(jsCallback)
    THEN [Unchanged EXCEPT !.exc = EXPECT_CB_EXCEPTION, !.ret = NULL]
  ELSE
    LET calls == <<VendorCall("tcpip_adapter_get_ip_info " \o interface, err),
                   VendorCall("esp_wifi_get_mac", ESP_OK)>>
        jsIpInfo == IF err = ESP_OK
                      THEN [ip |-> networkGetAddressAsString(ipInfo.ip),
                            netmask |-> networkGetAddressAsString(ipInfo.netmask),
                            gw |-> networkGetAddressAsString(ipInfo.gw),
                            mac |-> MACSTR(macAddr)]
                      ELSE [mac |-> MACSTR(macAddr)]
    IN  QueryResult(jsCallback, calls, jsIpInfo)

jswrap_ESP32_wifi_getIP(jsCallback, err, ipInfo, macAddr) ==
  getIPInfo(jsCallback, "TCPIP_ADAPTER_IF_STA", err, ipInfo, macAddr)

jswrap_ESP32_wifi_getAPIP(jsCallback, err, ipInfo, macAddr) ==
  getIPInfo(jsCallback, "TCPIP_ADAPTER_IF_AP", err, ipInfo, macAddr)

\* ---------------------------------------------------------- placeholders

\* The operations that log "Not implemented" and do nothing else.
jswrap_ESP32_wifi_stopAP(jsCallback) == Unchanged

jswrap_ESP32_wifi_startAP(jsSsid, jsOptions, jsCallback) == Unchanged

jswrap_ESP32_wifi_setConfig(jsSettings) == Unchanged

jswrap_ESP32_wifi_save(what) == Unchanged

jswrap_ESP32_wifi_restore == Unchanged

jswrap_ESP32_wifi_getHostByName(jsHostname, jsCallback) == Unchanged

jswrap_ESP32_wifi_getHostname(jsCallback) == [Unchanged EXCEPT !.ret = NULL]

jswrap_ESP32_wifi_setHostname(jsHostname) == Unchanged

\* ping that calls its callback back.
jswrap_ESP32_ping_invoke(ipAddr, pingCallback) ==
  [Unchanged EXCEPT
     !.queued = IF jsvIsFunction(pingCallback)
                  THEN <<[fn |-> pingCallback, args |-> <<>>]>>
                  ELSE <<>>]

jswrap_ESP32_ping(ipAddr, pingCallback) == Unchanged

\* ------------------------------------------------------------------ inputs

\* What a script passes as a callback: nothing, null, or a function it has
\* not passed before.
CallbackArgs ==
  {NULL, JsNull} \cup (IF nextFn <= MaxFns THEN {JsFunction(nextFn)} ELSE {})

SsidArgs == {JsNumber, JsString("myssid")}

\* The options argument with the value of its password property (NULL when
\* there is no such property, or no object to ask).
OptionsArgs ==
  {<<NULL, NULL>>, <<JsNull, NULL>>} \cup
  {<<JsObject, jsPassword>> : jsPassword \in {NULL, JsNumber, JsString("secret")}}

\* The results of the n ESP-IDF calls of one operation, of which at most one
\* fails.
ErrVectors(n) ==
  {err \in [1..n -> esp_err_t] : Cardinality({i \in 1..n : err[i] # ESP_OK}) <= 1}

AllOk(n) == [i \in 1..n |-> ESP_OK]

\* The argument lists of connect that pass its checks.
ConnectAccepts(jsSsid, opt, jsCallback) ==
  /\ jsvIsString(jsSsid)
  /\ opt[1] = NULL \/ jsvIsObject(opt[1])
  /\ jsCallback = NULL \/ jsvIsFunction(jsCallback)
  /\ opt[2] = NULL \/ jsvIsString(opt[2])

\* The ESP-IDF results a call of connect can meet: it makes no ESP-IDF call
\* when it rejects its arguments.
ConnectErrs(jsSsid, opt, jsCallback) ==
  IF ConnectAccepts(jsSsid, opt, jsCallback) THEN ErrVectors(4) ELSE {AllOk(4)}

SsidNoNul == [i \in 1..SSID_LEN |-> 97]

SsidShort == [i \in 1..SSID_LEN |-> IF i <= 5 THEN 97 + i ELSE 0]

SsidEmbedded == [i \in 1..SSID_LEN |-> IF i = 4 THEN 0 ELSE 98]

ApRecords ==
  {[rssi |-> -70, authmode |-> WIFI_AUTH_WPA2_PSK, ssid |-> SsidShort],
   [rssi |-> -40, authmode |-> 5, ssid |-> SsidNoNul]}

ApLists == UNION {[1..n -> ApRecords] : n \in 0..MaxAps}

IpInfos ==
  {[ip |-> <<192, 168, 1, 5>>, netmask |-> <<255, 255, 255, 0>>, gw |-> <<192, 168, 1, 1>>],
   [ip |-> <<10, 0, 0, 7>>, netmask |-> <<255, 0, 0, 0>>, gw |-> <<10, 0, 0, 1>>]}

Bssids == {<<0, 17, 34, 170, 187, 204>>}

\* The text the AP station branches print for the station's address.  They
\* hand MAC2STR the address of the mac array, so that the six arguments of
\* the format are arrays and not bytes: what is printed is not defined, and
\* is either the address or some other text.
MacTexts == {MACSTR(m) : m \in Bssids} \cup {"3ffb4a10:3ffb4a16:3ffb4a1c:3ffb4a22:3ffb4a28:3ffb4a2e"}

\* The events the ESP-IDF event loop delivers, SYSTEM_EVENT_SCAN_DONE aside.
Events ==
  {[event_id |-> "SYSTEM_EVENT_STA_DISCONNECTED",
    event_info |-> [ssid |-> b, bssid |-> m, reason |-> 8]] :
      b \in {SsidShort, SsidNoNul}, m \in Bssids}
  \cup
  {[event_id |-> "SYSTEM_EVENT_STA_CONNECTED",
    event_info |-> [ssid |-> b, bssid |-> m, channel |-> 6]] :
      b \in {SsidEmbedded}, m \in Bssids}
  \cup
  {[event_id |-> "SYSTEM_EVENT_STA_GOT_IP", event_info |-> i] : i \in IpInfos}
  \cup
  {[event_id |-> e, event_info |-> [macText |-> m]] :
      e \in {"SYSTEM_EVENT_AP_STACONNECTED", "SYSTEM_EVENT_AP_STADISCONNECTED"},
      m \in MacTexts}
  \cup
  {[event_id |-> e, event_info |-> [none |-> 0]] :
      e \in EventIds \ {"SYSTEM_EVENT_STA_DISCONNECTED", "SYSTEM_EVENT_STA_CONNECTED",
                        "SYSTEM_EVENT_STA_GOT_IP", "SYSTEM_EVENT_AP_STACONNECTED",
                        "SYSTEM_EVENT_AP_STADISCONNECTED", "SYSTEM_EVENT_SCAN_DONE"}}

\* The ESP-IDF results a call of scan can meet: it makes no ESP-IDF call when
\* it rejects the call.
ScanErrs(jsCallback) ==
  IF g_jsScanCallback = NULL /\ jsvIsFunction(jsCallback) THEN ErrVectors(3) ELSE {AllOk(3)}

\* What the driver answers scanCB: nothing is asked of it when no scan
\* callback is stored, and the records do not matter when a fetch fails.
ScanDoneInputs ==
  IF g_jsScanCallback = NULL THEN {<<AllOk(2), <<>>>>}
  ELSE ({AllOk(2)} \X ApLists)
       \cup {<<[AllOk(2) EXCEPT ![1] = ESP_FAIL], <<>>>>}
       \cup {<<[AllOk(2) EXCEPT ![2] = ESP_FAIL], list>> : list \in [1..1 -> ApRecords]}

\* ----------------------------------------------------------------- actions

Count(seq, f) == Cardinality({i \in 1..Len(seq) : seq[i].id = f})

CountQueued(seq, f) == Cardinality({i \in 1..Len(seq) : seq[i].fn.id = f})

\* The step of the program in which the handler op, called with the callback
\* argument jsCallback and the further arguments input, has the given outcome.
Commit(op, jsCallback, input, outcome) ==
  \E r \in {outcome} :
    /\ g_jsDisconnectCallback' = r.d
    /\ g_jsGotIpCallback' = r.g
    /\ g_jsScanCallback' = r.s
    /\ locks' = [f \in FnIds |-> locks[f] + Count(r.locked, f) - Count(r.unlocked, f)]
    /\ invoked' = [f \in FnIds |-> invoked[f] + CountQueued(r.queued, f)]
    /\ superseded' = superseded \cup
         {f \in FnIds : Count(r.unlocked, f) > 0 /\ CountQueued(r.queued, f) = 0}
    /\ registered' = [f \in FnIds |-> IF Count(r.locked, f) > 0 THEN op ELSE registered[f]]
    /\ nextFn' = IF jsvIsFunction(jsCallback) THEN nextFn + 1 ELSE nextFn
    /\ aborted' = r.fatal
    /\ last' = [op |-> op, cb |-> jsCallback, input |-> input, pre |-> Slots,
                queued |-> r.queued, published |-> r.published, calls |-> r.calls,
                temps |-> r.temps,
                exc |-> r.exc, ret |-> r.ret, fatal |-> r.fatal]
    /\ UNCHANGED pc

Init ==
  /\ g_jsDisconnectCallback = NULL
  /\ g_jsGotIpCallback = NULL
  /\ g_jsScanCallback = NULL
  /\ locks = [f \in FnIds |-> 0]
  /\ invoked = [f \in FnIds |-> 0]
  /\ superseded = {}
  /\ registered = [f \in FnIds |-> ""]
  /\ nextFn = 1
  /\ aborted = FALSE
  /\ last = [op |-> "init", cb |-> NULL, input |-> <<>>,
             pre |-> [d |-> NULL, g |-> NULL, s |-> NULL],
             queued |-> <<>>, published |-> <<>>, calls |-> <<>>, temps |-> <<>>,
             exc |-> "", ret |-> "", fatal |-> FALSE]
  /\ pc = [t \in Dispatchers |-> NoDispatch]

Disconnect ==
  /\ ~aborted
  /\ \E jsCallback \in CallbackArgs, err \in esp_err_t :
       Commit("disconnect", jsCallback, <<>>, jswrap_ESP32_wifi_disconnect(jsCallback, err))

Connect ==
  /\ ~aborted
  /\ \E jsSsid \in SsidArgs, opt \in OptionsArgs, jsCallback \in CallbackArgs :
      \E err \in ConnectErrs(jsSsid, opt, jsCallback) :
       Commit("connect", jsCallback, <<jsSsid, opt[1], opt[2]>>,
              jswrap_ESP32_wifi_connect(jsSsid, opt[1], opt[2], jsCallback, err))

Scan ==
  /\ ~aborted
  /\ \E jsCallback \in CallbackArgs :
      \E err \in ScanErrs(jsCallback) :
       Commit("scan", jsCallback, <<>>, jswrap_ESP32_wifi_scan(jsCallback, err))

Event ==
  /\ ~aborted
  /\ \E event \in Events :
       Commit(event.event_id, NULL, <<>>, event_handler(event, ESP_OK, ESP_OK, <<>>))

ScanDone ==
  /\ ~aborted
  /\ \E in \in ScanDoneInputs :
      LET err == in[1]
          list == in[2]
      IN
       Commit("SYSTEM_EVENT_SCAN_DONE", NULL, list,
              event_handler([event_id |-> "SYSTEM_EVENT_SCAN_DONE",
                             event_info |-> [none |-> 0]], err[1], err[2], list))

Next == Disconnect \/ Connect \/ Scan \/ Event \/ ScanDone

Spec == Init /\ [][Next]_vars

\* ------------------------------------------- the operations a script calls

\* What a script passes to a query as its callback: as CallbackArgs, or a
\* value that is no function.
QueryCallbackArgs == CallbackArgs \cup {JsNumber}

\* The mode and power save type the driver reports to getStatus.
StatusReadings ==
  {<<mode, "WIFI_PS_NONE">> :
     mode \in {"WIFI_MODE_NULL", "WIFI_MODE_AP", "WIFI_MODE_STA", "WIFI_MODE_APSTA",
               "WIFI_MODE_MAX"}}
  \cup
  {<<"WIFI_MODE_STA", psType>> :
     psType \in {"WIFI_PS_MODEM", "WIFI_PS_LIGHT", "WIFI_PS_MAC", "out of range"}}

PasswordShort == [i \in 1..PASSWORD_LEN |-> IF i <= 6 THEN 111 + i ELSE 0]

PasswordNoNul == [i \in 1..PASSWORD_LEN |-> 112]

\* The station configurations esp_wifi_get_config(WIFI_IF_STA) fills in;
\* after holds the bytes that follow the password field, up to a NUL.
StaConfigs ==
  {[ssid |-> SsidShort, password |-> PasswordShort, after |-> <<0>>],
   [ssid |-> SsidNoNul, password |-> PasswordNoNul, after |-> <<1, 0>>],
   [ssid |-> SsidNoNul, password |-> PasswordNoNul, after |-> <<0>>]}

\* The authentication modes of the enumeration, and values outside it.
AuthModes ==
  {WIFI_AUTH_OPEN, WIFI_AUTH_WEP, WIFI_AUTH_WPA_PSK, WIFI_AUTH_WPA2_PSK,
   WIFI_AUTH_WPA_WPA2_PSK}

OtherAuthModes == {5, 6, 255}

\* The access point configurations esp_wifi_get_config(WIFI_IF_AP) fills in.
ApConfigs ==
  {[ssid |-> SsidShort, password |-> PasswordShort, after |-> <<0>>,
    authmode |-> a, ssid_hidden |-> 0, max_connection |-> 4] :
      a \in AuthModes \cup OtherAuthModes}
  \cup
  {[ssid |-> SsidNoNul, password |-> PasswordNoNul, after |-> <<5, 0>>,
    authmode |-> WIFI_AUTH_WPA2_PSK, ssid_hidden |-> 1, max_connection |-> 1]}

\* What tcpip_adapter_get_ip_info answers: on failure ipInfo is not read.
IpInfoAnswers ==
  {<<ESP_OK, i>> : i \in IpInfos} \cup {<<ESP_FAIL, CHOOSE i \in IpInfos : TRUE>>}

\* Arguments of the operations that look at none of them.
AnyArgs == {NULL, JsString("espruino")}

\* The access point the driver's station interface is connected to when
\* connect is called, if any.
StaStatus ==
  {[connected |-> FALSE, ssid |-> "", password |-> ""],
   [connected |-> TRUE, ssid |-> "myssid", password |-> "secret"]}

\* The network names a script passes to connect, the empty one included.
SsidArgsAny == SsidArgs \cup {JsString("")}

ConnectAny ==
  /\ ~aborted
  /\ \E jsSsid \in SsidArgsAny, opt \in OptionsArgs, jsCallback \in CallbackArgs,
        sta \in StaStatus :
      \E err \in ConnectErrs(jsSsid, opt, jsCallback) :
       Commit("connect", jsCallback, <<jsSsid, opt[1], opt[2], sta>>,
              jswrap_ESP32_wifi_connect(jsSsid, opt[1], opt[2], jsCallback, err))

GetStatus ==
  /\ ~aborted
  /\ \E jsCallback \in QueryCallbackArgs, reading \in StatusReadings :
       Commit("getStatus", jsCallback, reading,
              jswrap_ESP32_wifi_getStatus(jsCallback, reading[1], reading[2]))

GetDetails ==
  /\ ~aborted
  /\ \E jsCallback \in QueryCallbackArgs, config \in StaConfigs :
       Commit("getDetails", jsCallback, config,
              jswrap_ESP32_wifi_getDetails(jsCallback, config))

GetAPDetails ==
  /\ ~aborted
  /\ \E jsCallback \in QueryCallbackArgs, config \in ApConfigs :
       Commit("getAPDetails", jsCallback, config,
              jswrap_ESP32_wifi_getAPDetails(jsCallback, config))

GetIP ==
  /\ ~aborted
  /\ \E jsCallback \in QueryCallbackArgs, answer \in IpInfoAnswers, macAddr \in Bssids :
       Commit("getIP", jsCallback, answer,
              jswrap_ESP32_wifi_getIP(jsCallback, answer[1], answer[2], macAddr))

GetAPIP ==
  /\ ~aborted
  /\ \E jsCallback \in QueryCallbackArgs, answer \in IpInfoAnswers, macAddr \in Bssids :
       Commit("getAPIP", jsCallback, answer,
              jswrap_ESP32_wifi_getAPIP(jsCallback, answer[1], answer[2], macAddr))

StopAP ==
  /\ ~aborted
  /\ \E jsCallback \in CallbackArgs :
       Commit("stopAP", jsCallback, <<>>, jswrap_ESP32_wifi_stopAP(jsCallback))

StartAP ==
  /\ ~aborted
  /\ \E jsSsid \in AnyArgs, jsOptions \in {NULL, JsObject}, jsCallback \in CallbackArgs :
       Commit("startAP", jsCallback, <<jsSsid, jsOptions>>,
              jswrap_ESP32_wifi_startAP(jsSsid, jsOptions, jsCallback))

SetConfig ==
  /\ ~aborted
  /\ \E jsSettings \in {NULL, JsObject} :
       Commit("setConfig", NULL, <<jsSettings>>, jswrap_ESP32_wifi_setConfig(jsSettings))

Save ==
  /\ ~aborted
  /\ \E what \in AnyArgs :
       Commit("save", NULL, <<what>>, jswrap_ESP32_wifi_save(what))

Restore ==
  /\ ~aborted
  /\ Commit("restore", NULL, <<>>, jswrap_ESP32_wifi_restore)

GetHostByName ==
  /\ ~aborted
  /\ \E jsHostname \in AnyArgs, jsCallback \in CallbackArgs :
       Commit("getHostByName", jsCallback, <<jsHostname>>,
              jswrap_ESP32_wifi_getHostByName(jsHostname, jsCallback))

GetHostname ==
  /\ ~aborted
  /\ \E jsCallback \in CallbackArgs :
       Commit("getHostname", jsCallback, <<>>, jswrap_ESP32_wifi_getHostname(jsCallback))

SetHostname ==
  /\ ~aborted
  /\ \E jsHostname \in AnyArgs :
       Commit("setHostname", NULL, <<jsHostname>>, jswrap_ESP32_wifi_setHostname(jsHostname))

Ping ==
  /\ ~aborted
  /\ \E ipAddr \in AnyArgs, pingCallback \in CallbackArgs :
       Commit("ping", pingCallback, <<ipAddr>>, jswrap_ESP32_ping(ipAddr, pingCallback))

Query == GetStatus \/ GetDetails \/ GetAPDetails \/ GetIP \/ GetAPIP

Placeholder ==
  \/ StopAP \/ StartAP \/ SetConfig \/ Save \/ Restore
  \/ GetHostByName \/ GetHostname \/ SetHostname \/ Ping

\* The queries and the placeholders, called while disconnect and scan
\* callbacks come to be stored.
NextOps == Disconnect \/ Scan \/ Query \/ Placeholder

SpecOps == Init /\ [][NextOps]_vars

\* connect with the wider arguments, and the events that answer it.
NextConnect == ConnectAny \/ Event

SpecConnect == Init /\ [][NextConnect]_vars

\* --------------------------------------------------- the payloads decoded

\* The 32-byte SSID fields whose first NUL is after k bytes, for every k,
\* with bytes that are not NUL behind it, and the field with no NUL.
SsidBuffers ==
  {[i \in 1..SSID_LEN |-> IF i <= k THEN 97 + (i % 7) ELSE IF i = k + 1 THEN 0 ELSE 120] :
     k \in 0..SSID_LEN}

\* Scan records with every authentication mode and with every SSID field.
ApRecordsAny ==
  {[rssi |-> -55, authmode |-> a, ssid |-> SsidShort] : a \in AuthModes \cup OtherAuthModes}
  \cup
  {[rssi |-> -55, authmode |-> WIFI_AUTH_OPEN, ssid |-> b] : b \in SsidBuffers \cup {SsidNoNul}}

\* The records the driver hands to scanCB; none is asked for when no scan
\* callback is stored.
ScanDoneAnyInputs ==
  IF g_jsScanCallback = NULL THEN {<<>>} ELSE [1..1 -> ApRecordsAny]

ScanDoneAny ==
  /\ ~aborted
  /\ \E list \in ScanDoneAnyInputs :
       Commit("SYSTEM_EVENT_SCAN_DONE", NULL, list,
              event_handler([event_id |-> "SYSTEM_EVENT_SCAN_DONE",
                             event_info |-> [none |-> 0]], ESP_OK, ESP_OK, list))

\* The station events that carry an SSID field.
EventsAny ==
  {[event_id |-> "SYSTEM_EVENT_STA_DISCONNECTED",
    event_info |-> [ssid |-> b, bssid |-> m, reason |-> 8]] :
      b \in SsidBuffers, m \in Bssids}
  \cup
  {[event_id |-> "SYSTEM_EVENT_STA_CONNECTED",
    event_info |-> [ssid |-> b, bssid |-> m, channel |-> 6]] :
      b \in SsidBuffers, m \in Bssids}

EventAny ==
  /\ ~aborted
  /\ \E event \in EventsAny :
       Commit(event.event_id, NULL, <<event.event_info.ssid>>,
              event_handler(event, ESP_OK, ESP_OK, <<>>))

\* Scans answered with any record, station events with any SSID field, and
\* the access point configuration read back.
NextDecode == Scan \/ ScanDoneAny \/ EventAny \/ GetAPDetails

SpecDecode == Init /\ [][NextDecode]_vars

\* ------------------------------------------------------------ properties

\* The function a handle holds, as a set.
HeldIn(slot) == IF jsvIsFunction(slot) THEN {slot.id} ELSE {}

\* The functions stored by operation op whose handle is still locked.
Outstanding(op) == {f \in FnIds : registered[f] = op /\ locks[f] > 0}

AllCallsOk(calls) == \A i \in 1..Len(calls) : calls[i].err = ESP_OK

CallNames(calls) == [i \in 1..Len(calls) |-> calls[i].name]

IsPrefix(s, full) == Len(s) <= Len(full) /\ s = SubSeq(full, 1, Len(s))

\* C1: under every interleaving of connect, disconnect, scan and the events,
\* each registered callback is queued for invocation at most once, and a
\* callback that has been queued is no longer held by any handle.
C1_InvokedAtMostOnce ==
  \A f \in FnIds :
    /\ invoked[f] <= 1
    /\ invoked[f] = 1 =>
         f \notin HeldIn(g_jsDisconnectCallback) \cup HeldIn(g_jsGotIpCallback)
                  \cup HeldIn(g_jsScanCallback)

\* A got-IP event delivered again after the connect callback was resolved.
C1_SecondDelivery ==
  /\ last.op = "SYSTEM_EVENT_STA_GOT_IP"
  /\ last.pre.g = NULL
  /\ last.queued = <<>>
  /\ \E f \in FnIds : registered[f] = "connect" /\ invoked[f] = 1

\* C2: of each kind at most one callback is outstanding, namely the one its
\* handle holds, and a callback released because a later registration took
\* its place is never invoked.
C2_AtMostOnePending ==
  /\ Outstanding("disconnect") = HeldIn(g_jsDisconnectCallback)
  /\ Outstanding("connect") = HeldIn(g_jsGotIpCallback)
  /\ Outstanding("scan") = HeldIn(g_jsScanCallback)
  /\ \A op \in {"disconnect", "connect", "scan"} : Cardinality(Outstanding(op)) <= 1
  /\ \A f \in superseded : invoked[f] = 0 /\ locks[f] = 0

\* A second callback of a kind registered while the first was pending.
C2_SecondRegistration ==
  \E f1, f2 \in FnIds :
    /\ f1 # f2
    /\ registered[f1] = registered[f2]
    /\ f1 \in superseded
    /\ locks[f2] = 1
    /\ last.cb = JsFunction(f2)
    /\ f1 \in HeldIn(last.pre.d) \cup HeldIn(last.pre.g)

\* C3: scan called while a scan callback is stored raises an error, leaves
\* the three handles as they were and makes no ESP-IDF call.
C3_ScanNotReentrant ==
  (last.op = "scan" /\ last.pre.s # NULL) =>
    /\ last.exc = SCAN_IN_PROGRESS_EXCEPTION
    /\ Slots = last.pre
    /\ last.calls = <<>>
    /\ last.queued = <<>>
    /\ \A f \in HeldIn(last.cb) : locks[f] = 0

\* scan called with a function while another scan callback is stored.
C3_ScanWhilePending ==
  /\ last.op = "scan"
  /\ jsvIsFunction(last.pre.s)
  /\ jsvIsFunction(last.cb)
  /\ last.cb # last.pre.s

\* C4: a disconnected, got-IP or scan-done event that finds its handle empty
\* queues no callback, leaves the three handles as they were and returns
\* ESP_OK; scanCB then asks the driver for nothing.
C4_EventWithoutCallback ==
  /\ (last.op = "SYSTEM_EVENT_STA_DISCONNECTED" /\ last.pre.d = NULL) =>
       last.queued = <<>> /\ Slots = last.pre /\ last.ret = ESP_OK /\ ~last.fatal
  /\ (last.op = "SYSTEM_EVENT_STA_GOT_IP" /\ last.pre.g = NULL) =>
       last.queued = <<>> /\ Slots = last.pre /\ last.ret = ESP_OK /\ ~last.fatal
  /\ (last.op = "SYSTEM_EVENT_SCAN_DONE" /\ last.pre.s = NULL) =>
       /\ last.queued = <<>> /\ Slots = last.pre /\ last.ret = ESP_OK /\ ~last.fatal
       /\ last.calls = <<>>
       /\ last.published = <<>>

\* A scan-done event with no scan callback stored while another handle is set.
C4_ScanDoneWithoutCallback ==
  /\ last.op = "SYSTEM_EVENT_SCAN_DONE"
  /\ last.pre.s = NULL
  /\ jsvIsFunction(last.pre.g)
  /\ g_jsGotIpCallback = last.pre.g

ConnectedDetails ==
  {[ip |-> "192.168.1.5", netmask |-> "255.255.255.0", gw |-> "192.168.1.1"],
   [ip |-> "10.0.0.7", netmask |-> "255.0.0.0", gw |-> "10.0.0.1"]}

\* C5: a connect with a callback whose ESP-IDF calls all succeed stores the
\* callback; the got-IP event that finds it queues it once with the single
\* argument null, publishes "connected" with ip, netmask and gw in dotted
\* decimal, and leaves the got-IP handle empty.
C5_ConnectThenGotIp ==
  /\ (/\ last.op = "connect" /\ jsvIsFunction(last.cb) /\ last.exc = ""
      /\ Len(last.calls) = 4 /\ AllCallsOk(last.calls)) =>
       g_jsGotIpCallback = last.cb
  /\ (last.op = "SYSTEM_EVENT_STA_GOT_IP" /\ last.pre.g # NULL) =>
       /\ last.queued = <<[fn |-> last.pre.g, args |-> <<JsNull>>]>>
       /\ registered[last.pre.g.id] = "connect"
       /\ invoked[last.pre.g.id] = 1
       /\ Len(last.published) = 1
       /\ last.published[1].name = "#onconnected"
       /\ Len(last.published[1].args) = 1
       /\ last.published[1].args[1] \in ConnectedDetails
       /\ g_jsGotIpCallback = NULL

\* A got-IP event with 192.168.1.5 that resolved a connect callback.
C5_GotIpResolved ==
  /\ last.op = "SYSTEM_EVENT_STA_GOT_IP"
  /\ jsvIsFunction(last.pre.g)
  /\ Len(last.queued) = 1
  /\ last.published[1].args[1].ip = "192.168.1.5"

\* C6: an accepted scan stores its callback; the scan-done event that finds
\* it and fetches n records queues it once with one argument, the n records
\* in the driver's order, and leaves the scan handle empty, so that the next
\* scan is accepted.
C6_ScanThenScanDone ==
  /\ (last.op = "scan" /\ last.pre.s = NULL /\ jsvIsFunction(last.cb)) =>
       last.exc = "" /\ g_jsScanCallback = last.cb
  /\ (last.op = "SYSTEM_EVENT_SCAN_DONE" /\ last.pre.s # NULL /\ ~last.fatal) =>
       /\ Len(last.queued) = 1
       /\ last.queued[1].fn = last.pre.s
       /\ invoked[last.pre.s.id] = 1
       /\ Len(last.queued[1].args) = 1
       /\ Len(last.queued[1].args[1]) = Len(last.input)
       /\ \A i \in 1..Len(last.input) :
            /\ last.queued[1].args[1][i].rssi = last.input[i].rssi
            /\ last.queued[1].args[1][i].authMode = authModeToString(last.input[i].authmode)
       /\ g_jsScanCallback = NULL

\* A scan-done event that delivered two different records.
C6_TwoRecordsDelivered ==
  /\ last.op = "SYSTEM_EVENT_SCAN_DONE"
  /\ jsvIsFunction(last.pre.s)
  /\ ~last.fatal
  /\ Len(last.input) = 2
  /\ last.input[1] # last.input[2]
  /\ Len(last.queued) = 1

\* C7: disconnect(cbA) followed at once by connect("ssid", null, cbB), the
\* ESP-IDF calls succeeding, leaves the disconnect handle empty (so that cbA
\* can no longer be invoked) and cbB in the got-IP handle.
C7_DisconnectThenConnect ==
  [][(/\ last.op = "disconnect" /\ jsvIsFunction(last.cb) /\ last.exc = ""
      /\ g_jsDisconnectCallback = last.cb
      /\ last'.op = "connect"
      /\ jsvIsString(last'.input[1])
      /\ last'.input[2] = JsNull
      /\ jsvIsFunction(last'.cb)
      /\ AllCallsOk(last'.calls))
     => (g_jsDisconnectCallback' = NULL /\ g_jsGotIpCallback' = last'.cb)]_vars

ArgumentExceptions ==
  {NO_SSID_EXCEPTION, EXPECT_OPT_EXCEPTION, EXPECT_PASSWORD_EXCEPTION, EXPECT_CB_EXCEPTION}

\* C8: connect, disconnect or scan called with an argument of the wrong shape
\* raises an error, makes no ESP-IDF call and leaves the three handles as
\* they were before the call.
C8_ArgumentErrorNoEffect ==
  (last.op \in {"connect", "disconnect", "scan"} /\ last.exc \in ArgumentExceptions) =>
    /\ last.calls = <<>>
    /\ last.queued = <<>>
    /\ Slots = last.pre

\* C9: when an ESP-IDF call of connect, disconnect or scan fails, the
\* operation returns with its callback stored in no handle.
C9_StoredOnlyAfterSuccess ==
  (/\ last.op \in {"connect", "disconnect", "scan"}
   /\ jsvIsFunction(last.cb)
   /\ ~AllCallsOk(last.calls)) =>
    /\ last.cb \notin {g_jsDisconnectCallback, g_jsGotIpCallback, g_jsScanCallback}
    /\ locks[last.cb.id] = 0

ConnectOrder ==
  <<"esp_wifi_set_mode", "esp_wifi_set_config", "esp_wifi_start", "esp_wifi_connect">>

ScanOrder == <<"esp_wifi_set_mode", "esp_wifi_start", "esp_wifi_scan_start">>

\* C10: the ESP-IDF calls of connect and of scan are made in their fixed
\* order, none is made after one that failed, all are made when none fails,
\* and the operation itself queues no callback.
C10_VendorCallOrder ==
  /\ last.op = "connect" =>
       /\ IsPrefix(CallNames(last.calls), ConnectOrder)
       /\ \A i \in 1..(Len(last.calls) - 1) : last.calls[i].err = ESP_OK
       /\ (last.exc = "" /\ AllCallsOk(last.calls)) => Len(last.calls) = 4
       /\ last.queued = <<>>
       /\ \A f \in HeldIn(last.cb) : invoked[f] = 0
  /\ last.op = "scan" =>
       /\ IsPrefix(CallNames(last.calls), ScanOrder)
       /\ \A i \in 1..(Len(last.calls) - 1) : last.calls[i].err = ESP_OK
       /\ (last.exc = "" /\ AllCallsOk(last.calls)) => Len(last.calls) = 3
       /\ last.queued = <<>>
       /\ \A f \in HeldIn(last.cb) : invoked[f] = 0

\* A connect with a callback whose esp_wifi_set_config failed.
C10_SetConfigFailed ==
  /\ last.op = "connect"
  /\ jsvIsFunction(last.cb)
  /\ Len(last.calls) = 2
  /\ last.calls[2].err = ESP_FAIL

\* C11: dispatching an event of a kind that wifiGetEvent names publishes
\* that name exactly once, with one record as its only argument.
C11_MappedEventPublished ==
  (last.op \in EventIds /\ wifiGetEvent(last.op) # "") =>
    /\ Len(last.published) = 1
    /\ last.published[1].name = wifiGetEvent(last.op)
    /\ Len(last.published[1].args) = 1

\* The kinds event_handler has no branch for and wifiGetEvent has no name for.
UninterestingEvents ==
  {e \in EventIds : wifiGetEvent(e) = "" /\ e # "SYSTEM_EVENT_SCAN_DONE"}

\* C12: the dispatch of an event of a kind that is neither named nor handled
\* returns ESP_OK, publishes nothing, queues no callback and leaves the three
\* handles as they were; and the dispatch of an event of any kind returns
\* ESP_OK.
C12_DispatchReturnsSuccess ==
  /\ last.op \in UninterestingEvents =>
       /\ last.published = <<>>
       /\ last.queued = <<>>
       /\ last.calls = <<>>
       /\ Slots = last.pre
  /\ last.op \in EventIds => last.ret = ESP_OK

\* C13: connect called with the empty string as its network name raises an
\* argument error and makes no ESP-IDF call.
C13_EmptySsidRejected ==
  (last.op = "connect" /\ last.input[1] = JsString("")) =>
    /\ last.exc \in ArgumentExceptions
    /\ last.calls = <<>>

QueryOps == {"getStatus", "getDetails", "getAPDetails", "getIP", "getAPIP"}

\* C14: a query called with a function as its callback queues that function
\* exactly once with the record it built, returns that same record, and
\* stores the function in none of the three handles.
C14_QuerySchedulesCallback ==
  (last.op \in QueryOps /\ jsvIsFunction(last.cb)) =>
    /\ last.exc = ""
    /\ last.queued = <<[fn |-> last.cb, args |-> <<last.ret>>]>>
    /\ invoked[last.cb.id] = 1
    /\ Slots = last.pre
    /\ last.cb \notin {g_jsDisconnectCallback, g_jsGotIpCallback, g_jsScanCallback}
    /\ locks[last.cb.id] = 0

PlaceholderOps ==
  {"startAP", "stopAP", "setConfig", "save", "restore", "getHostByName",
   "getHostname", "setHostname", "ping"}

C16_NeverFatal == ~aborted

\* C17: when scan-done is dispatched while a scan callback is stored and a
\* fetch of the record count or of the records fails, the dispatch ends in
\* the ESP-IDF abort: it does not return, and the scan callback is not
\* queued, with no array at all.
C17_FetchErrorIsFatal ==
  (/\ last.op = "SYSTEM_EVENT_SCAN_DONE"
   /\ jsvIsFunction(last.pre.s)
   /\ ~AllCallsOk(last.calls)) =>
    /\ last.fatal
    /\ aborted
    /\ last.ret = ""
    /\ last.queued = <<>>
    /\ invoked[last.pre.s.id] = 0

\* A scan-done whose fetch of the records failed after the count was read.
C17_RecordFetchFailed ==
  /\ last.op = "SYSTEM_EVENT_SCAN_DONE"
  /\ jsvIsFunction(last.pre.s)
  /\ Len(last.calls) = 2
  /\ last.calls[2].err = ESP_FAIL
  /\ Len(last.input) = 1

\* C18: connect called with the network name and the password of the access
\* point the station is connected to makes no ESP-IDF call.
C18_SameApNothingChanged ==
  (/\ last.op = "connect"
   /\ Len(last.input) = 4
   /\ last.input[4].connected
   /\ jsvIsString(last.input[1])
   /\ last.input[1].s = last.input[4].ssid
   /\ jsvIsString(last.input[3])
   /\ last.input[3].s = last.input[4].password) =>
    /\ last.exc = ""
    /\ last.calls = <<>>

\* The number of bytes of a 32-byte field before its first NUL, 32 if it
\* holds none.
FirstNul(buf) ==
  IF \E i \in 1..SSID_LEN : buf[i] = 0
    THEN (CHOOSE i \in 1..SSID_LEN : buf[i] = 0 /\ \A j \in 1..(i - 1) : buf[j] # 0) - 1
    ELSE SSID_LEN

\* C19: the ssid of a scan result and of a disconnected or associated event
\* is the 32-byte field up to its first NUL: all 32 bytes when the field
\* holds no NUL, the first k bytes when its first NUL follows k bytes.
C19_SsidDecoded ==
  /\ (last.op = "SYSTEM_EVENT_SCAN_DONE" /\ last.queued # <<>>) =>
       \A i \in 1..Len(last.input) :
         LET buf == last.input[i].ssid
             ssid == last.queued[1].args[1][i].ssid
         IN  Len(ssid) = FirstNul(buf) /\ ssid = SubSeq(buf, 1, FirstNul(buf))
  /\ (/\ last.op \in {"SYSTEM_EVENT_STA_DISCONNECTED", "SYSTEM_EVENT_STA_CONNECTED"}
      /\ last.input # <<>>) =>
       LET buf == last.input[1]
           ssid == last.published[1].args[1].ssid
       IN  Len(ssid) = FirstNul(buf) /\ ssid = SubSeq(buf, 1, FirstNul(buf))

\* A scan result whose SSID field holds no NUL, delivered with 32 characters.
C19_FullLengthSsid ==
  /\ last.op = "SYSTEM_EVENT_SCAN_DONE"
  /\ last.queued # <<>>
  /\ Len(last.input) = 1
  /\ FirstNul(last.input[1].ssid) = SSID_LEN
  /\ Len(last.queued[1].args[1][1].ssid) = SSID_LEN

\* The strings documented for the authentication modes: the mode, its name
\* in a scan result, its name in the access point details.
AuthModeTable ==
  {<<WIFI_AUTH_OPEN, "OPEN", "open">>,
   <<WIFI_AUTH_WEP, "WEP", "wep">>,
   <<WIFI_AUTH_WPA_PSK, "WPA", "wpa">>,
   <<WIFI_AUTH_WPA2_PSK, "WPA2", "wpa2">>,
   <<WIFI_AUTH_WPA_WPA2_PSK, "WPA/WPA2", "wpa_wpa2">>}

\* The name documented for authentication mode a, in column col of the table.
Documented(a, col) ==
  IF \E row \in AuthModeTable : row[1] = a
    THEN (CHOOSE row \in AuthModeTable : row[1] = a)[col]
    ELSE IF col = 2 THEN "Unknown" ELSE "unknown"

ShortAuthNames == {"open", "wep", "wpa", "wpa2", "wpa_wpa2", "unknown"}

\* C21: the authMode of every record of the array handed to the scan
\* callback is one of open, wep, wpa, wpa2, wpa_wpa2 and unknown.
C21_ScanAuthModeShortName ==
  (last.op = "SYSTEM_EVENT_SCAN_DONE" /\ last.queued # <<>>) =>
    \A i \in 1..Len(last.queued[1].args[1]) :
      last.queued[1].args[1][i].authMode \in ShortAuthNames

\* C22: the record getIP and getAPIP return always has mac; it has ip,
\* netmask and gw, all three, when tcpip_adapter_get_ip_info reports the
\* address of the interface, and none of the three when it reports none.
C22_IpFieldsWhenAddressed ==
  (last.op \in {"getIP", "getAPIP"} /\ last.exc = "") =>
    /\ "mac" \in DOMAIN last.ret
    /\ last.input[1] = ESP_OK => DOMAIN last.ret = {"ip", "netmask", "gw", "mac"}
    /\ last.input[1] # ESP_OK => DOMAIN last.ret = {"mac"}
    /\ last.input[1] = ESP_OK =>
         /\ last.ret.ip = networkGetAddressAsString(last.input[2].ip)
         /\ last.ret.netmask = networkGetAddressAsString(last.input[2].netmask)
         /\ last.ret.gw = networkGetAddressAsString(last.input[2].gw)

\* getAPIP called while the access point interface has no address.
C22_NoAddress ==
  /\ last.op = "getAPIP"
  /\ last.exc = ""
  /\ last.input[1] = ESP_FAIL
  /\ DOMAIN last.ret = {"mac"}

\* C24: a connect call that raises no argument error leaves
\* g_jsDisconnectCallback empty and releases the got-IP callback that was
\* pending without queueing it, whatever the ESP-IDF calls return; afterwards
\* g_jsGotIpCallback holds the callback of this call or nothing.
C24_ConnectClearsBoth ==
  (last.op = "connect" /\ last.exc = "") =>
    /\ g_jsDisconnectCallback = NULL
    /\ g_jsGotIpCallback \in {NULL, last.cb}
    /\ last.queued = <<>>
    /\ \A f \in HeldIn(last.pre.g) \cup HeldIn(last.pre.d) :
         /\ invoked[f] = 0
         /\ locks[f] = 0
         /\ f \in superseded
         /\ f \notin HeldIn(g_jsGotIpCallback)

\* connect called while both a disconnect and a connect callback are
\* pending, with esp_wifi_set_mode failing.
C24_FailedConnectClears ==
  /\ last.op = "connect"
  /\ last.exc = ""
  /\ jsvIsFunction(last.pre.g)
  /\ jsvIsFunction(last.pre.d)
  /\ ~AllCallsOk(last.calls)
  /\ g_jsGotIpCallback = NULL

\* The number of handles that hold the function f.
HeldCount(f) ==
  Cardinality({k \in {"d", "g", "s"} : Slots[k] = JsFunction(f)})

\* C26: with the operations and the dispatcher run one at a time, every
\* callback is locked once when it is stored and unlocked once when it is
\* resolved or replaced: the locks taken and not yet given back on a
\* function are those of the handles that hold it.
C26_LocksBalanced ==
  \A f \in FnIds :
    /\ locks[f] = HeldCount(f)
    /\ locks[f] \in {0, 1}
    /\ (invoked[f] > 0 \/ f \in superseded) => locks[f] = 0
    /\ locks[f] = 1 => registered[f] \in {"disconnect", "connect", "scan"}

\* A stored callback resolved by its event while another kind is pending.
C26_ResolvedAndHeld ==
  /\ last.op = "SYSTEM_EVENT_STA_GOT_IP"
  /\ last.queued # <<>>
  /\ \E f \in FnIds : invoked[f] = 1 /\ locks[f] = 0 /\ registered[f] = "connect"
  /\ \E f \in FnIds : locks[f] = 1 /\ registered[f] = "scan"

\* The fields the documentation gives the record of each application event.
EventFields(eventName) ==
  CASE eventName = "#ondisconnected" -> {"ssid", "mac", "reason"}
    [] eventName = "#onassociated" -> {"ssid", "mac", "channel"}
    [] eventName = "#onconnected" -> {"ip", "netmask", "gw"}
    [] eventName = "#onsta_joined" -> {"mac"}
    [] eventName = "#onsta_left" -> {"mac"}
    [] OTHER -> {}

C28_CallbackArguments ==
  \A i \in 1..Len(last.queued) :
    LET q == last.queued[i]
    IN  /\ jsvIsFunction(q.fn)
        /\ registered[q.fn.id] = "disconnect" =>
             /\ q.args = <<>>
             /\ last.op = "SYSTEM_EVENT_STA_DISCONNECTED"
        /\ registered[q.fn.id] = "connect" =>
             /\ Len(q.args) = 1
             /\ IF last.op = "SYSTEM_EVENT_STA_GOT_IP"
                  THEN q.args[1] = JsNull
                  ELSE jsvIsString(q.args[1])

\* Both a disconnect and a connect callback have been resolved.
C28_BothResolved ==
  /\ last.queued # <<>>
  /\ \E f1, f2 \in FnIds :
       /\ registered[f1] = "disconnect" /\ invoked[f1] = 1
       /\ registered[f2] = "connect" /\ invoked[f2] = 1

\* A call of scan that got as far as esp_wifi_set_mode or esp_wifi_start and
\* saw it fail.
ScanVendorFailure(l) ==
  /\ l.op = "scan"
  /\ l.calls # <<>>
  /\ Len(l.calls) <= 2
  /\ l.calls[Len(l.calls)].err # ESP_OK

\* C30: a scan call whose esp_wifi_set_mode or esp_wifi_start fails leaves
\* its callback in g_jsScanCallback; while g_jsScanCallback holds a callback
\* every scan call raises "A scan is already in progress." and changes
\* nothing, and only the dispatch of a scan-done event empties it, so
\* without that event scan is rejected for ever.
C30_FailedScanBlocksScan ==
  /\ ScanVendorFailure(last) =>
       /\ jsvIsFunction(last.cb)
       /\ g_jsScanCallback = last.cb
       /\ locks[last.cb.id] = 1
  /\ (last.pre.s # NULL /\ last.op = "scan") =>
       /\ last.exc = SCAN_IN_PROGRESS_EXCEPTION
       /\ last.calls = <<>>
       /\ g_jsScanCallback = last.pre.s
  /\ (last.pre.s # NULL /\ g_jsScanCallback # last.pre.s) =>
       /\ last.op = "SYSTEM_EVENT_SCAN_DONE"
       /\ g_jsScanCallback = NULL

\* scan called with a function, esp_wifi_start failing: the callback stays
\* stored with its lock and nothing was handed to it.
C30_FailedScanStored ==
  /\ ScanVendorFailure(last)
  /\ Len(last.calls) = 2
  /\ g_jsScanCallback = last.cb
  /\ invoked[last.cb.id] = 0
  /\ locks[last.cb.id] = 1

\* ------------------------------------- operations, events and queries

\* One answer of the driver for each query.
QueryOutcome(op, jsCallback) ==
  LET sta == CHOOSE config \in StaConfigs : TRUE
      ap == CHOOSE config \in ApConfigs : TRUE
      ipInfo == CHOOSE i \in IpInfos : TRUE
      macAddr == CHOOSE b \in Bssids : TRUE
  IN  CASE op = "getStatus" ->
             jswrap_ESP32_wifi_getStatus(jsCallback, "WIFI_MODE_STA", "WIFI_PS_NONE")
        [] op = "getDetails" -> jswrap_ESP32_wifi_getDetails(jsCallback, sta)
        [] op = "getAPDetails" -> jswrap_ESP32_wifi_getAPDetails(jsCallback, ap)
        [] op = "getIP" -> jswrap_ESP32_wifi_getIP(jsCallback, ESP_OK, ipInfo, macAddr)
        [] op = "getAPIP" -> jswrap_ESP32_wifi_getAPIP(jsCallback, ESP_OK, ipInfo, macAddr)

\* A query called between the operations and the events.
QueryBetween ==
  /\ ~aborted
  /\ \E op \in {"getStatus", "getDetails", "getAPDetails", "getIP", "getAPIP"},
        jsCallback \in CallbackArgs \ {JsNull} :
       Commit(op, jsCallback, <<>>, QueryOutcome(op, jsCallback))

\* connect called with the name of an open network and no options.
ConnectOpen ==
  /\ ~aborted
  /\ \E jsSsid \in {JsString("myssid")}, jsCallback \in CallbackArgs :
      \E err \in ConnectErrs(jsSsid, <<NULL, NULL>>, jsCallback) :
       Commit("connect", jsCallback, <<jsSsid, NULL, NULL>>,
              jswrap_ESP32_wifi_connect(jsSsid, NULL, NULL, jsCallback, err))

NextFrame == Disconnect \/ ConnectOpen \/ Scan \/ Event \/ ScanDone \/ QueryBetween

SpecFrame == Init /\ [][NextFrame]_vars

\* The handles an operation or event may change.
OwnSlots(op) ==
  CASE op = "disconnect" -> {"d"}
    [] op = "scan" -> {"s"}
    [] op = "connect" -> {"d", "g"}
    [] op = "SYSTEM_EVENT_STA_DISCONNECTED" -> {"d"}
    [] op = "SYSTEM_EVENT_STA_GOT_IP" -> {"g"}
    [] op = "SYSTEM_EVENT_SCAN_DONE" -> {"s"}
    [] OTHER -> {}

\* C29: an operation or event changes only the handles of its own kind:
\* disconnect only g_jsDisconnectCallback (a pending connect callback stays
\* stored and locked), scan only g_jsScanCallback, connect never
\* g_jsScanCallback, a disconnected event only g_jsDisconnectCallback, a
\* got-IP event only g_jsGotIpCallback, a scan-done event only
\* g_jsScanCallback, and the queries and the other events none.
C29_OnlyOwnSlots ==
  \A k \in {"d", "g", "s"} \ OwnSlots(last.op) :
    /\ Slots[k] = last.pre[k]
    /\ \A f \in HeldIn(Slots[k]) : locks[f] = 1 /\ invoked[f] = 0 /\ f \notin superseded

\* disconnect called with a function while a connect callback is pending.
C29_DisconnectKeepsConnect ==
  /\ last.op = "disconnect"
  /\ jsvIsFunction(last.cb)
  /\ jsvIsFunction(last.pre.g)
  /\ g_jsGotIpCallback = last.pre.g
  /\ g_jsDisconnectCallback = last.cb

\* ------------------------------------------- event_handler, by statement

\* The events whose branch of event_handler reads a callback handle, one of
\* each kind.
StepEvents ==
  {CHOOSE e \in Events : e.event_id = "SYSTEM_EVENT_STA_DISCONNECTED",
   CHOOSE e \in Events : e.event_id = "SYSTEM_EVENT_STA_GOT_IP",
   [event_id |-> "SYSTEM_EVENT_SCAN_DONE", event_info |-> [none |-> 0]]}

\* The access points the driver reports to scanCB in these dispatches.
StepList == <<CHOOSE rec \in ApRecords : TRUE>>

\* The handle the branch of an event reads.
SlotOf(id) ==
  CASE id = "SYSTEM_EVENT_STA_DISCONNECTED" -> "d"
    [] id = "SYSTEM_EVENT_STA_GOT_IP" -> "g"
    [] id = "SYSTEM_EVENT_SCAN_DONE" -> "s"

\* event_handler that goes on to sendWifiEvent without resolving the callback.
After_skip(id, at, pending) ==
  CASE at = "test" -> IF id = "SYSTEM_EVENT_SCAN_DONE" THEN "idle" ELSE "publish"
    [] at = "queue" -> "unlock"
    [] at = "unlock" -> "clear"
    [] at = "clear" -> IF id = "SYSTEM_EVENT_SCAN_DONE" THEN "idle" ELSE "publish"
    [] at = "publish" -> "idle"

\* The statement that follows the one at `at` in the branch of event id:
\* the test of the handle, jsiQueueEvents, jsvUnLock, the assignment of NULL
\* and, but for scanCB, sendWifiEvent.
After(id, at, pending) ==
  CASE at = "test" ->
         IF pending THEN "queue"
         ELSE IF id = "SYSTEM_EVENT_SCAN_DONE" THEN "idle" ELSE "publish"
    [] at = "queue" -> "unlock"
    [] at = "unlock" -> "clear"
    [] at = "clear" -> IF id = "SYSTEM_EVENT_SCAN_DONE" THEN "idle" ELSE "publish"
    [] at = "publish" -> "idle"

\* What the branch of dispatcher t does to the handles as they are now.
Branch(t) == event_handler(pc[t].event, ESP_OK, ESP_OK, StepList)

\* What a statement of the branch of event id has queued and published.
StepLast(id, queued, published) ==
  [op |-> id, cb |-> NULL, input |-> <<>>, pre |-> [d |-> NULL, g |-> NULL, s |-> NULL],
   queued |-> queued, published |-> published, calls |-> <<>>,
   temps |-> IF published = <<>> THEN <<>> ELSE BranchTemps(id),
   exc |-> "", ret |-> "", fatal |-> FALSE]

\* Dispatcher t moves from its statement to the next one.
Advance(t, pending, queued, published) ==
  LET id == pc[t].event.event_id
      to == After(id, pc[t].at, pending)
  IN  /\ pc' = [pc EXCEPT ![t] = IF to = "idle" THEN NoDispatch ELSE [@ EXCEPT !.at = to]]
      /\ last' = StepLast(id, queued, published)
      /\ UNCHANGED <<superseded, registered, nextFn, aborted>>

\* event_handler is called with an event, while no dispatch is under way or
\* during a dispatch of the same event.
Begin ==
  /\ ~aborted
  /\ \E t \in Dispatchers, event \in StepEvents :
       /\ pc[t].at = "idle"
       /\ \A u \in Dispatchers : pc[u].at = "idle" \/ pc[u].event = event
       /\ pc' = [pc EXCEPT ![t] = [at |-> "test", event |-> event]]
       /\ last' = StepLast(event.event_id, <<>>, <<>>)
       /\ UNCHANGED <<g_jsDisconnectCallback, g_jsGotIpCallback, g_jsScanCallback,
                      locks, invoked, superseded, registered, nextFn, aborted>>

\* if (jsvIsFunction(g_jsDisconnectCallback)), if (!jsvIsFunction(*g_jsCallback))
\* return, if (g_jsScanCallback == NULL) return.
Test ==
  \E t \in Dispatchers :
    /\ pc[t].at = "test"
    /\ Advance(t, IF pc[t].event.event_id = "SYSTEM_EVENT_SCAN_DONE"
                    THEN Slots[SlotOf(pc[t].event.event_id)] # NULL
                    ELSE jsvIsFunction(Slots[SlotOf(pc[t].event.event_id)]),
               <<>>, <<>>)
    /\ UNCHANGED <<g_jsDisconnectCallback, g_jsGotIpCallback, g_jsScanCallback,
                   locks, invoked>>

\* jsiQueueEvents(NULL, handle, params, n) with the handle as it is now.
Queue ==
  \E t \in Dispatchers :
    /\ pc[t].at = "queue"
    /\ Advance(t, TRUE, Branch(t).queued, <<>>)
    /\ invoked' = [f \in FnIds |-> invoked[f] + CountQueued(Branch(t).queued, f)]
    /\ UNCHANGED <<g_jsDisconnectCallback, g_jsGotIpCallback, g_jsScanCallback, locks>>

\* jsvUnLock(handle).
Unlock ==
  \E t \in Dispatchers :
    /\ pc[t].at = "unlock"
    /\ Advance(t, TRUE, <<>>, <<>>)
    /\ locks' = [f \in FnIds |-> locks[f] - Count(Branch(t).unlocked, f)]
    /\ UNCHANGED <<g_jsDisconnectCallback, g_jsGotIpCallback, g_jsScanCallback, invoked>>

\* handle = NULL.
Clear ==
  \E t \in Dispatchers :
    /\ pc[t].at = "clear"
    /\ Advance(t, TRUE, <<>>, <<>>)
    /\ g_jsDisconnectCallback' = Branch(t).d
    /\ g_jsGotIpCallback' = Branch(t).g
    /\ g_jsScanCallback' = Branch(t).s
    /\ UNCHANGED <<locks, invoked>>

\* The details object is built and handed to sendWifiEvent; return ESP_OK.
Publish ==
  \E t \in Dispatchers :
    /\ pc[t].at = "publish"
    /\ Advance(t, TRUE, <<>>, Branch(t).published)
    /\ UNCHANGED <<g_jsDisconnectCallback, g_jsGotIpCallback, g_jsScanCallback,
                   locks, invoked>>

\* The script registers a callback it has not passed before, with disconnect,
\* connect or scan, while no dispatch is under way; the driver accepts.
Register ==
  /\ ~aborted
  /\ nextFn <= MaxFns
  /\ \A t \in Dispatchers : pc[t].at = "idle"
  /\ \E jsCallback \in {JsFunction(nextFn)} :
       \/ Commit("disconnect", jsCallback, <<>>,
                 jswrap_ESP32_wifi_disconnect(jsCallback, ESP_OK))
       \/ Commit("connect", jsCallback, <<JsString("myssid"), NULL, NULL>>,
                 jswrap_ESP32_wifi_connect(JsString("myssid"), NULL, NULL, jsCallback,
                                           AllOk(4)))
       \/ Commit("scan", jsCallback, <<>>, jswrap_ESP32_wifi_scan(jsCallback, AllOk(3)))

NextStep == Register \/ Begin \/ Test \/ Queue \/ Unlock \/ Clear \/ Publish

SpecStep == Init /\ [][NextStep]_vars

\* The operation that stores the callback the branch of an event resolves.
RegisteredBy(id) ==
  CASE id = "SYSTEM_EVENT_STA_DISCONNECTED" -> "disconnect"
    [] id = "SYSTEM_EVENT_STA_GOT_IP" -> "connect"
    [] id = "SYSTEM_EVENT_SCAN_DONE" -> "scan"

\* C23: a dispatch of a disconnected or got-IP event publishes the
\* application event only after the pending callback, if there was one, has
\* been queued and its handle set to NULL, and it never returns without
\* publishing the event, callback or not.
C23_ResolveBeforePublish ==
  [][\A t \in Dispatchers :
       (/\ pc[t].at # "idle"
        /\ pc'[t].at = "idle"
        /\ pc[t].event.event_id \in {"SYSTEM_EVENT_STA_DISCONNECTED",
                                     "SYSTEM_EVENT_STA_GOT_IP"}) =>
         /\ pc[t].at = "publish"
         /\ Len(last'.published) = 1
         /\ last'.published[1].name = wifiGetEvent(pc[t].event.event_id)
         /\ Slots[SlotOf(pc[t].event.event_id)] = NULL
         /\ \A f \in FnIds :
              registered[f] = RegisteredBy(pc[t].event.event_id) =>
                f \in superseded \/ invoked[f] >= 1]_vars

\* A disconnected event has been published by a dispatch that found a
\* callback pending, no other dispatch being under way.
C23_PublishedAfterCallback ==
  /\ \A t \in Dispatchers : pc[t].at = "idle"
  /\ last.op = "SYSTEM_EVENT_STA_DISCONNECTED"
  /\ last.published # <<>>
  /\ \E f \in FnIds : registered[f] = "disconnect" /\ invoked[f] = 1 /\ locks[f] = 0
  /\ \A f \in FnIds : invoked[f] <= 1

\* C25: when two dispatches of the same event are under way at once, the
\* test, queueing, unlocking and clearing of the handle act as one step: the
\* callback is queued at most once and its lock given back at most once.
C25_OverlapAtomic ==
  \A f \in FnIds :
    /\ invoked[f] <= 1
    /\ locks[f] >= 0

\* The functions an operation has stored so far.
StoredBy(op) == {f \in FnIds : registered[f] = op}

\* C31: a handle that is not NULL holds a function, and that function is
\* the callback of the most recent call of its operation that stored one;
\* a call that raises no error leaves its own handle holding exactly its
\* callback argument (disconnect, scan) or that argument or nothing
\* (connect), and a value that is no function is never stored.
C31_OnlyCallablesStored ==
  /\ \A k \in {"d", "g", "s"} :
       Slots[k] # NULL =>
         LET op == CASE k = "d" -> "disconnect" [] k = "g" -> "connect" [] k = "s" -> "scan"
         IN  /\ jsvIsFunction(Slots[k])
             /\ Slots[k].id \in StoredBy(op)
             /\ \A f \in StoredBy(op) : f <= Slots[k].id
  /\ (last.op = "disconnect" /\ last.exc = "") => g_jsDisconnectCallback = last.cb
  /\ (last.op = "scan" /\ last.exc = "") => g_jsScanCallback = last.cb
  /\ (last.op = "connect" /\ last.exc = "") => g_jsGotIpCallback \in {NULL, last.cb}
  /\ (last.op \in {"disconnect", "connect", "scan"} /\ ~jsvIsFunction(last.cb)) =>
       \A k \in {"d", "g", "s"} : Slots[k] \in {NULL, last.pre[k]}

\* disconnect called with null while a disconnect callback is pending: the
\* call is refused and the handle is left empty.
C31_NullRefused ==
  /\ last.op = "disconnect"
  /\ last.cb = JsNull
  /\ jsvIsFunction(last.pre.d)
  /\ last.exc = EXPECT_CB_EXCEPTION
  /\ g_jsDisconnectCallback = NULL

\* The events whose branch of event_handler builds a record and publishes it.
RecordEvents ==
  {"SYSTEM_EVENT_STA_DISCONNECTED", "SYSTEM_EVENT_STA_CONNECTED",
   "SYSTEM_EVENT_STA_GOT_IP", "SYSTEM_EVENT_AP_STACONNECTED",
   "SYSTEM_EVENT_AP_STADISCONNECTED"}

\* C32: when the dispatch of a disconnected, associated, got-IP, sta_joined
\* or sta_left event returns, the dispatcher holds no lock on the record it
\* built nor on the Wifi module it fetched to publish it.
C32_RecordsTransient ==
  last.op \in RecordEvents => last.temps = <<>>

\* C33: the password getDetails and getAPDetails return is the text of the
\* 64-byte password field up to its first NUL byte, at most 64 characters;
\* a field without a NUL byte yields exactly its 64 bytes, and no byte
\* behind the field is read.
C33_PasswordDecoded ==
  (last.op \in {"getDetails", "getAPDetails"} /\ last.exc = "") =>
    /\ Len(last.ret.password) <= PASSWORD_LEN
    /\ last.ret.password = CString(last.input.password)

====
